---- MODULE Spec2Model ----
(***************************************************************************)
(* Model of src/code.py: the brute-force drone route assignment script.    *)
(* The script is straight-line; each stage of it is one action, and the    *)
(* data frames it builds are the variables.                                *)
(*                                                                         *)
(* Conventions                                                             *)
(*  - a route (a tuple of order IDs) is a sequence; the placeholder 0 the  *)
(*    script uses for "no assignment" is Idle, the empty sequence (no      *)
(*    route is empty, so the two never collide);                           *)
(*  - a data frame is the sequence of its rows, a row is a record; the    *)
(*    frame sorted at line 205 is the ascending sequence of its classes   *)
(*    of rows of equal Total_Time, the order inside a class being one the *)
(*    unstable sort does not fix;                                          *)
(*  - a float quotient dist / speed is kept exactly, as a numerator over   *)
(*    the common denominator TimeScale (the product of the non-zero        *)
(*    speeds), with the IEEE results inf (x / 0, x > 0) and nan (0 / 0)    *)
(*    kept as such.                                                        *)
(***************************************************************************)
EXTENDS Integers, Sequences, FiniteSets, TLC

\* ---------------------------------------------------------------- bounds
MaxOrders == 2
MaxDrones == 2

\* The values the input records are drawn from.
Coords == {<<1, 0>>, <<-1, -1>>, <<0, 2>>}
Deadlines == {1, 4}
Weights == {1, 2}
Payloads == {1, 3}
MaxDists == {3, 8}
Speeds == {0, 1, 2}

\* The "id" fields of the input records (opaque strings of input.json).
OrderNames == <<"o1", "o2", "o3", "o4">>
DroneNames == <<"d1", "d2", "d3", "d4">>

VARIABLES
    orders,             \* data["orders"]
    fleet,              \* data["drones"]["fleet"]
    pc,                 \* the stage the script has reached
    err,                \* the exception that ended the run, or "none"
    drones_df,          \* rows of the available drones
    all_combos_perms,   \* every route
    order_data_df,      \* one row per route
    combos_lists,       \* per drone: its feasible routes, then Idle
    all_combinations,   \* product(*combos_lists)
    valid_combinations, \* the combinations that pass is_valid_combination
    valid_combos_df,    \* one row per valid combination; sorted at line 205
    final_output,       \* the rows selected (one, or none)
    json_dict           \* the "assignments" list written to output.json

vars == <<orders, fleet, pc, err, drones_df, all_combos_perms, order_data_df,
          combos_lists, all_combinations, valid_combinations, valid_combos_df,
          final_output, json_dict>>

\* ------------------------------------------------------- python builtins
Idle == <<>>

Abs(n) == IF n < 0 THEN -n ELSE n

Range(s) == {s[i] : i \in 1..Len(s)}

RECURSIVE SumSeq(_)
SumSeq(s) == IF Len(s) = 0 THEN 0 ELSE Head(s) + SumSeq(Tail(s))

RECURSIVE Chain(_)
\* list.extend over a list of lists
Chain(ss) == IF Len(ss) = 0 THEN <<>> ELSE Head(ss) \o Chain(Tail(ss))

RemoveAt(s, i) == SubSeq(s, 1, i - 1) \o SubSeq(s, i + 1, Len(s))

RECURSIVE combinations(_, _)
\* itertools.combinations(ids, r): r-subsequences, in lexicographic position order
combinations(ids, r) ==
    IF r = 0 THEN << <<>> >>
    ELSE IF Len(ids) < r THEN <<>>
    ELSE LET withHead == combinations(Tail(ids), r - 1)
         IN  [i \in 1..Len(withHead) |-> <<Head(ids)>> \o withHead[i]]
             \o combinations(Tail(ids), r)

\* permutations left out: each subset contributes its ID-order route only
combo_only(combo) == <<combo>>

RECURSIVE permutations(_)
\* itertools.permutations(combo): all orderings, in lexicographic position order
permutations(combo) ==
    IF Len(combo) = 0 THEN << <<>> >>
    ELSE Chain([i \in 1..Len(combo) |->
                  LET rest == permutations(RemoveAt(combo, i))
                  IN  [j \in 1..Len(rest) |-> <<combo[i]>> \o rest[j]]])

RECURSIVE product(_)
\* itertools.product(*lists): the rightmost list advances fastest
product(lists) ==
    IF Len(lists) = 0 THEN << <<>> >>
    ELSE LET rest == product(Tail(lists))
         IN  Chain([i \in 1..Len(Head(lists)) |->
                      [j \in 1..Len(rest) |-> <<Head(lists)[i]>> \o rest[j]]])

\* --------------------------------------------------------------- inputs
OrderRecords == [x : {c[1] : c \in Coords}, y : {c[2] : c \in Coords},
                 time : Deadlines, weight : Weights]

OrderInputs ==
    UNION {[1..n -> {o \in OrderRecords : <<o.x, o.y>> \in Coords}] : n \in 0..MaxOrders}

\* Line 32 drops an unavailable drone before any other field of it is read, so
\* one unavailable record (the most capable one) stands for all of them.
DroneRecords ==
    [max_payload : Payloads, max_dist : MaxDists, speed : Speeds, available : {TRUE}]
    \cup {[max_payload |-> 3, max_dist |-> 8, speed |-> 2, available |-> FALSE]}

DroneInputs == UNION {[1..n -> DroneRecords] : n \in 0..MaxDrones}

Init ==
    /\ orders \in OrderInputs
    /\ fleet \in DroneInputs
    /\ pc = "load"
    /\ err = "none"
    /\ drones_df = <<>>
    /\ all_combos_perms = <<>>
    /\ order_data_df = <<>>
    /\ combos_lists = <<>>
    /\ all_combinations = <<>>
    /\ valid_combinations = <<>>
    /\ valid_combos_df = <<>>
    /\ final_output = <<>>
    /\ json_dict = <<>>

\* ------------------------------------------------------- lines 13 to 32
\* orders_df: the order records with the ID column 1..n and the input "id".
orders_df ==
    [i \in 1..Len(orders) |->
        [ID |-> i, id |-> OrderNames[i], x |-> orders[i].x, y |-> orders[i].y,
         time |-> orders[i].time, weight |-> orders[i].weight]]

\* The drone rows before the availability filter of line 32.
fleet_df ==
    [i \in 1..Len(fleet) |->
        [Drone_ID |-> i, id |-> DroneNames[i], max_payload |-> fleet[i].max_payload,
         max_dist |-> fleet[i].max_dist, speed |-> fleet[i].speed,
         available |-> fleet[i].available]]

IsAvailable(drone) == drone.available

\* drones_df[drones_df['available']].reset_index(drop=True)
available_drones == SelectSeq(fleet_df, IsAvailable)

\* An empty fleet list makes a frame without columns: drones_df['available']
\* raises KeyError.
Preprocess ==
    /\ pc = "load"
    /\ IF Len(fleet) = 0
       THEN /\ pc' = "error"
            /\ err' = "KeyError"
            /\ UNCHANGED drones_df
       ELSE /\ pc' = "routes"
            /\ drones_df' = available_drones
            /\ UNCHANGED err
    /\ UNCHANGED <<orders, fleet, all_combos_perms, order_data_df, combos_lists,
                   all_combinations, valid_combinations, valid_combos_df, final_output,
                   json_dict>>

\* ------------------------------------------------------- lines 35 to 39
order_ids == [i \in 1..Len(orders_df) |-> orders_df[i].ID]

combos_perms_of_size(ids, r) ==
    LET combos == combinations(ids, r)
    IN  Chain([c \in 1..Len(combos) |-> permutations(combos[c])])

AllCombosPerms(ids) ==
    Chain([r \in 1..Len(ids) |-> combos_perms_of_size(ids, r)])

GenerateRoutes ==
    /\ pc = "routes"
    /\ all_combos_perms' = AllCombosPerms(order_ids)
    /\ pc' = "metrics"
    /\ UNCHANGED <<orders, fleet, err, drones_df, order_data_df, combos_lists,
                   all_combinations, valid_combinations, valid_combos_df, final_output,
                   json_dict>>

\* ------------------------------------------------------ lines 42 to 120
order_row(order) == orders_df[order]

\* the (x, y) of each order of the route, in route order
dist_list(combo) ==
    [k \in 1..Len(combo) |-> <<order_row(combo[k]).x, order_row(combo[k]).y>>]

distance_list(combo) ==
    LET dl == dist_list(combo)
    IN  [k \in 1..Len(combo) |-> Abs(dl[k][1]) + Abs(dl[k][2])]

relative_distance(combo) ==
    LET dl == dist_list(combo)
    IN  [k \in 1..Len(combo) |->
            IF k = 1
            THEN Abs(dl[1][1]) + Abs(dl[1][2])
            ELSE Abs(dl[k][1] - dl[k - 1][1]) + Abs(dl[k][2] - dl[k - 1][2])]

RECURSIVE running_sum(_, _)
running_sum(rel, k) == IF k = 1 THEN rel[1] ELSE running_sum(rel, k - 1) + rel[k]

cumulative_distance(combo) ==
    LET rel == relative_distance(combo)
    IN  [k \in 1..Len(combo) |-> running_sum(rel, k)]

\* the return leg to the depot left out
one_way_distance(combo) == cumulative_distance(combo)[Len(combo)]

total_distance(combo) ==
    LET dl == dist_list(combo)
    IN  cumulative_distance(combo)[Len(combo)]
        + Abs(dl[Len(combo)][1]) + Abs(dl[Len(combo)][2])

\* orders_df.loc[orders_df['ID'].isin(combo), ...]: the rows of orders_df whose
\* ID is in the route, in the order of orders_df
isin_rows(combo) ==
    LET InCombo(row) == row.ID \in Range(combo)
    IN  SelectSeq(orders_df, InCombo)

total_weight(combo) ==
    LET rows == isin_rows(combo)
    IN  SumSeq([k \in 1..Len(rows) |-> rows[k].weight])

time_list(combo) ==
    LET rows == isin_rows(combo)
    IN  [k \in 1..Len(rows) |-> rows[k].time]

weight_check(combo, drone) ==
    IF total_weight(combo) <= drone.max_payload THEN 1 ELSE 0

distance_check(combo, drone) ==
    IF total_distance(combo) <= drone.max_dist THEN 1 ELSE 0

\* a division-by-zero guard that lets the comparison pass
time_ok_guarded(time, cum_dist, speed) == speed = 0 \/ time * speed >= cum_dist

\* time >= cum_dist / speed, cum_dist a numpy scalar: cum_dist / 0 is inf or
\* nan (a warning, no exception), and no time is >= inf or >= nan.
time_ok(time, cum_dist, speed) ==
    IF speed = 0 THEN FALSE ELSE time * speed >= cum_dist

Min(a, b) == IF a < b THEN a ELSE b

\* all(... for time, cum_dist in zip(time_list, cumulative_distance))
delivery_time_check(combo, drone) ==
    LET times == time_list(combo)
        cum   == cumulative_distance(combo)
    IN  IF \A k \in 1..Min(Len(times), Len(cum)) : time_ok(times[k], cum[k], drone.speed)
        THEN 1 ELSE 0

\* the weight check left out of the conjunction
overall_without_weight(combo, drone) ==
    IF distance_check(combo, drone) = 1 /\ delivery_time_check(combo, drone) = 1
    THEN 1 ELSE 0

overall_check(combo, drone) ==
    IF weight_check(combo, drone) = 1 /\ distance_check(combo, drone) = 1
       /\ delivery_time_check(combo, drone) = 1
    THEN 1 ELSE 0

\* the four drone_{id}_* columns of a row, keyed by the position of the drone
\* in drones_df
drone_columns(combo, drones) ==
    [d \in 1..Len(drones) |->
        [weight |-> weight_check(combo, drones[d]),
         distance |-> distance_check(combo, drones[d]),
         delivery_time_constraints |-> delivery_time_check(combo, drones[d]),
         overall |-> overall_check(combo, drones[d])]]

dist_data_row(combo, drones) ==
    [Order_Combos |-> combo,
     dist_list |-> dist_list(combo),
     distance_list |-> distance_list(combo),
     relative_distance |-> relative_distance(combo),
     cumulative_distance |-> cumulative_distance(combo),
     total_distance |-> total_distance(combo),
     weight |-> total_weight(combo),
     time |-> time_list(combo),
     drone |-> drone_columns(combo, drones)]

ComputeMetrics ==
    /\ pc = "metrics"
    /\ order_data_df' = [r \in 1..Len(all_combos_perms) |->
                            dist_data_row(all_combos_perms[r], drones_df)]
    /\ pc' = "candidates"
    /\ UNCHANGED <<orders, fleet, err, drones_df, all_combos_perms, combos_lists,
                   all_combinations, valid_combinations, valid_combos_df, final_output,
                   json_dict>>

\* ----------------------------------------------------- lines 125 to 128
\* list(order_data_df[order_data_df[f'drone_{drone}_overall'] == 1]['Order_Combos'])
valid_combos(d) ==
    LET Feasible(row) == row.drone[d].overall = 1
        rows == SelectSeq(order_data_df, Feasible)
    IN  [r \in 1..Len(rows) |-> rows[r].Order_Combos]

\* With no route, order_data_df has no column at all and the first drone's
\* lookup of drone_{id}_overall raises KeyError.
BuildCandidates ==
    /\ pc = "candidates"
    /\ IF Len(order_data_df) = 0 /\ Len(drones_df) > 0
       THEN /\ pc' = "error"
            /\ err' = "KeyError"
            /\ UNCHANGED combos_lists
       ELSE /\ pc' = "enumerate"
            /\ combos_lists' = [d \in 1..Len(drones_df) |-> Append(valid_combos(d), Idle)]
            /\ UNCHANGED err
    /\ UNCHANGED <<orders, fleet, drones_df, all_combos_perms, order_data_df,
                   all_combinations, valid_combinations, valid_combos_df, final_output,
                   json_dict>>

\* ----------------------------------------------------- lines 131 to 146
RECURSIVE no_repeat(_, _)
\* the walk of is_valid_combination over the orders of the non-placeholder
\* routes, with the running set `seen`
no_repeat(flat, seen) ==
    IF Len(flat) = 0 THEN TRUE
    ELSE IF Head(flat) \in seen THEN FALSE
    ELSE no_repeat(Tail(flat), seen \cup {Head(flat)})

\* the running set started again for every drone's route
is_valid_per_route(combination) ==
    \A d \in 1..Len(combination) : no_repeat(combination[d], {})

is_valid_combination(combination) == no_repeat(Chain(combination), {})

EnumerateAssignments ==
    /\ pc = "enumerate"
    /\ all_combinations' = product(combos_lists)
    /\ valid_combinations' = SelectSeq(product(combos_lists), is_valid_combination)
    /\ pc' = "frame"
    /\ UNCHANGED <<orders, fleet, err, drones_df, all_combos_perms, order_data_df,
                   combos_lists, valid_combos_df, final_output, json_dict>>

\* ----------------------------------------------------- lines 149 to 202
\* order_data_df.loc[order_data_df['Order_Combos'] == combo, column].values[0]
get_drone_metrics(combo, column_name) ==
    IF combo = Idle THEN 0
    ELSE LET r == CHOOSE i \in 1..Len(order_data_df) :
                    /\ order_data_df[i].Order_Combos = combo
                    /\ \A j \in 1..(i - 1) : order_data_df[j].Order_Combos # combo
         IN  order_data_df[r][column_name]

\* value[-1] if isinstance(value, list) and value else 0
get_last_value(value) == IF Len(value) > 0 THEN value[Len(value)] ELSE 0

\* get_last_value of the cumulative_distance column: the placeholder's metric
\* is the int 0, not a list
last_cumulative(combo) ==
    IF combo = Idle THEN 0 ELSE get_last_value(get_drone_metrics(combo, "cumulative_distance"))

RECURSIVE speed_product(_)
speed_product(drones) ==
    IF Len(drones) = 0 THEN 1
    ELSE (IF Head(drones).speed = 0 THEN 1 ELSE Head(drones).speed)
         * speed_product(Tail(drones))

\* the common denominator of every quotient by a drone speed
TimeScale == speed_product(drones_df)

\* last / speed as a float: nan for 0 / 0, inf for x / 0, else the quotient
drone_total_time(last, speed) ==
    IF speed = 0
    THEN IF last = 0 THEN [kind |-> "nan", num |-> 0] ELSE [kind |-> "inf", num |-> 0]
    ELSE [kind |-> "num", num |-> last * (TimeScale \div speed)]

\* DataFrame.sum(axis=1): nan entries are skipped, an inf entry makes the sum inf
sum_times(times) ==
    IF \E d \in 1..Len(times) : times[d].kind = "inf"
    THEN [kind |-> "inf", num |-> 0]
    ELSE [kind |-> "num",
          num |-> SumSeq([d \in 1..Len(times) |->
                            IF times[d].kind = "nan" THEN 0 ELSE times[d].num])]

\* a < b on floats that are not nan
TimeLess(a, b) == a.kind = "num" /\ (b.kind = "inf" \/ a.num < b.num)

all_order_ids == {orders_df[i].ID : i \in 1..Len(orders_df)}

combo_orders(combination) == Range(Chain(combination))

check_all_orders_present(combination) ==
    IF combo_orders(combination) = all_order_ids THEN 1 ELSE 0

count_orders(combination) == Cardinality(combo_orders(combination))

valid_combos_row(combination) ==
    LET n     == Len(combination)
        times == [d \in 1..n |->
                    drone_total_time(last_cumulative(combination[d]), drones_df[d].speed)]
        dists == [d \in 1..n |-> get_drone_metrics(combination[d], "total_distance")]
    IN  [Valid_combinations |-> combination,
         weight |-> [d \in 1..n |-> get_drone_metrics(combination[d], "weight")],
         cumulative_distance |->
             [d \in 1..n |-> get_drone_metrics(combination[d], "cumulative_distance")],
         total_distance |-> dists,
         total_time |-> times,
         Total_Time |-> sum_times(times),
         Total_Distance |-> SumSeq(dists),
         contains_all_orders |-> check_all_orders_present(combination),
         count |-> count_orders(combination)]

\* the one-row frame without columns taken as any other frame
apply_tuple_passes == FALSE

\* With no available drone valid_combinations is [()], the frame has one row
\* and no column, and apply(tuple, axis=1) of line 150 raises ValueError.
apply_tuple_raises == Len(drones_df) = 0

BuildFrame ==
    /\ pc = "frame"
    /\ IF apply_tuple_raises
       THEN /\ pc' = "error"
            /\ err' = "ValueError"
            /\ UNCHANGED valid_combos_df
       ELSE /\ pc' = "select"
            /\ valid_combos_df' = [r \in 1..Len(valid_combinations) |->
                                      valid_combos_row(valid_combinations[r])]
            /\ UNCHANGED err
    /\ UNCHANGED <<orders, fleet, drones_df, all_combos_perms, order_data_df,
                   combos_lists, all_combinations, valid_combinations, final_output,
                   json_dict>>

\* ----------------------------------------------------- lines 205 to 214
contains_all(row) == row.contains_all_orders = 1

\* Line 205 re-assigns valid_combos_df to the frame sorted by Total_Time. The
\* sort is numpy's quicksort (the default kind), which is not stable: the code
\* fixes the order of two rows only when their Total_Time differs. The sorted
\* frame is therefore kept as the ascending sequence of its classes of rows of
\* equal Total_Time, each class a set: every order of the rows inside a class
\* is an order the sort may produce, and none is singled out.
frame_rows(sorted) == UNION {sorted[k] : k \in 1..Len(sorted)}

\* the class of row i: after the classes of smaller Total_Time
class_position(df, i) ==
    1 + Cardinality({df[j].Total_Time : j \in {h \in 1..Len(df) :
                         TimeLess(df[h].Total_Time, df[i].Total_Time)}})

\* sort_values(by="Total_Time", ascending=True).reset_index(drop=True)
sort_values(df) ==
    [k \in 1..Cardinality({df[j].Total_Time : j \in 1..Len(df)}) |->
        {df[i] : i \in {j \in 1..Len(df) : class_position(df, j) = k}}]

\* sorted[mask], the mask being the set of rows it keeps: the rows kept stay
\* in the order of the frame
masked(sorted, mask) ==
    LET kept == [k \in 1..Len(sorted) |-> sorted[k] \cap mask]
        NonEmpty(class) == class # {}
    IN  SelectSeq(kept, NonEmpty)

\* .min() for .max()
min_count(sorted) ==
    CHOOSE m \in {row.count : row \in frame_rows(sorted)} :
        \A row \in frame_rows(sorted) : row.count >= m

max_count(sorted) ==
    CHOOSE m \in {row.count : row \in frame_rows(sorted)} :
        \A row \in frame_rows(sorted) : row.count <= m

\* the coverage tier left out: every row competes on Total_Time alone
selected_rows_by_time_only(sorted) == sorted

\* the rows the if / else of lines 210 to 214 selects among
selected_rows(sorted) ==
    IF \E row \in frame_rows(sorted) : contains_all(row)
    THEN masked(sorted, {row \in frame_rows(sorted) : contains_all(row)})
    ELSE masked(sorted, {row \in frame_rows(sorted) : row.count = max_count(sorted)})

\* nsmallest(1, "Total_Time"), keep="first": the first, in the order of the
\* frame, of the rows of least Total_Time, that is any row of the least class;
\* no row of an empty frame
nsmallest_1(sorted) ==
    IF Len(sorted) = 0 THEN {<<>>}
    ELSE {<<row>> : row \in {r \in frame_rows(sorted) :
                               \A q \in frame_rows(sorted) :
                                   ~TimeLess(q.Total_Time, r.Total_Time)}}

SelectOptimal ==
    /\ pc = "select"
    /\ valid_combos_df' = sort_values(valid_combos_df)
    /\ final_output' \in nsmallest_1(selected_rows(sort_values(valid_combos_df)))
    /\ pc' = "output"
    /\ UNCHANGED <<orders, fleet, err, drones_df, all_combos_perms, order_data_df,
                   combos_lists, all_combinations, valid_combinations, json_dict>>

\* ----------------------------------------------------- lines 216 to 239
\* list(orders_df[orders_df['ID'] == order]['id'])[0]
order_id_of(order) ==
    LET Match(row) == row.ID = order
    IN  SelectSeq(orders_df, Match)[1].id

assignment_entry(d) ==
    LET assigned == final_output[1].Valid_combinations[d]
    IN  [drone |-> drones_df[d].id,
         orders |-> IF assigned = Idle THEN <<>>
                    ELSE [k \in 1..Len(assigned) |-> order_id_of(assigned[k])],
         total_distance |-> final_output[1].total_distance[d]]

WriteOutput ==
    /\ pc = "output"
    /\ json_dict' = [d \in 1..Len(drones_df) |-> assignment_entry(d)]
    /\ pc' = "done"
    /\ UNCHANGED <<orders, fleet, err, drones_df, all_combos_perms, order_data_df,
                   combos_lists, all_combinations, valid_combinations, valid_combos_df,
                   final_output>>

Next ==
    \/ Preprocess
    \/ GenerateRoutes
    \/ ComputeMetrics
    \/ BuildCandidates
    \/ EnumerateAssignments
    \/ BuildFrame
    \/ SelectOptimal
    \/ WriteOutput

Spec == Init /\ [][Next]_vars

\* ================================================================ claims
\* What the properties are stated with: the inputs read directly, never the
\* frames the script derives from them.

Manhattan(p, q) == Abs(p[1] - q[1]) + Abs(p[2] - q[2])

Depot == <<0, 0>>

PointOf(order) == <<orders[order].x, orders[order].y>>

RECURSIVE PathLen(_, _)
\* the length of the flight depot -> route[1] -> ... -> route[k]
PathLen(route, k) ==
    IF k = 0 THEN 0
    ELSE PathLen(route, k - 1)
         + Manhattan(IF k = 1 THEN Depot ELSE PointOf(route[k - 1]), PointOf(route[k]))

RoundTrip(route) ==
    IF Len(route) = 0 THEN 0
    ELSE PathLen(route, Len(route)) + Manhattan(PointOf(route[Len(route)]), Depot)

RECURSIVE RouteWeight(_)
RouteWeight(route) ==
    IF Len(route) = 0 THEN 0 ELSE orders[Head(route)].weight + RouteWeight(Tail(route))

AvailableIDs == {i \in 1..Len(fleet) : fleet[i].available}

AllOrders == 1..Len(orders)

Injective(s) == \A i, j \in 1..Len(s) : i # j => s[i] # s[j]

\* every ordering of every non-empty subset of the orders
AllRoutes ==
    {s \in UNION {[1..k -> AllOrders] : k \in 1..Len(orders)} : Injective(s)}

RECURSIVE Factorial(_)
Factorial(n) == IF n = 0 THEN 1 ELSE n * Factorial(n - 1)

RECURSIVE RouteCount(_, _)
\* the sum over k = 1..m of n! / (n - k)!
RouteCount(n, m) ==
    IF m = 0 THEN 0 ELSE RouteCount(n, m - 1) + Factorial(n) \div Factorial(n - m)

Staged(stages) == pc \in stages

RoutesDone == Staged({"metrics", "candidates", "enumerate", "frame", "select", "output", "done"})
MetricsDone == Staged({"candidates", "enumerate", "frame", "select", "output", "done"})
CandidatesDone == Staged({"enumerate", "frame", "select", "output", "done"})
EnumerationDone == Staged({"frame", "select", "output", "done"})
FrameDone == Staged({"select", "output", "done"})
SelectionDone == Staged({"output", "done"})

\* the feasible-route set of the drone at position d of drones_df
FeasibleRoutes(d) ==
    {order_data_df[r].Order_Combos :
        r \in {i \in 1..Len(order_data_df) : order_data_df[i].drone[d].overall = 1}}

Covered(t) == UNION {Range(t[d]) : d \in 1..Len(t)}

Disjoint(t) ==
    \A d1, d2 \in 1..Len(t) : d1 # d2 => Range(t[d1]) \cap Range(t[d2]) = {}

\* the valid assignments: one feasible route or Idle per drone, order-disjoint
ValidAssignments ==
    {t \in [1..Len(drones_df) -> AllRoutes \cup {Idle}] :
        /\ \A d \in 1..Len(drones_df) : t[d] = Idle \/ t[d] \in FeasibleRoutes(d)
        /\ Disjoint(t)}

\* the total time of an assignment over TimeScale: the drones of speed 0 add
\* nothing
AssignTime(t) ==
    SumSeq([d \in 1..Len(t) |->
              IF drones_df[d].speed = 0 THEN 0
              ELSE PathLen(t[d], Len(t[d])) * (TimeScale \div drones_df[d].speed)])

Selected == final_output[1].Valid_combinations

\* the rows of valid_combos_df, before and after the sort of line 205
FrameRows ==
    IF pc = "select" THEN Range(valid_combos_df)
    ELSE IF SelectionDone THEN frame_rows(valid_combos_df)
    ELSE {}

\* C1: for every route and every drone of speed > 0, the deadline verdict is
\* true exactly when, at every position k of the route, the deadline of the
\* order delivered k-th is >= the cumulative distance to position k divided by
\* the speed. (The script pairs the cumulative distances with the deadlines in
\* ID order instead: this statement is violated.)
C1_DeadlineVerdictInRouteOrder ==
    \A r \in 1..Len(order_data_df) : \A d \in 1..Len(drones_df) :
        LET route == order_data_df[r].Order_Combos
            speed == drones_df[d].speed
        IN  speed > 0 =>
              ((order_data_df[r].drone[d].delivery_time_constraints = 1)
               <=> \A k \in 1..Len(route) :
                      orders[route[k]].time * speed >= PathLen(route, k))

\* C2: coverage priority. If some valid assignment covers every order, the
\* selected assignment covers every order.
C2_CoveragePriority ==
    SelectionDone =>
        ((\E t \in ValidAssignments : Covered(t) = AllOrders)
         => Covered(Selected) = AllOrders)

\* C2 witness: scenario C. Two drones, two orders, each order feasible on one
\* drone only; the plan gives each drone its order.
C2_Witness ==
    /\ pc = "done"
    /\ Len(orders) = 2 /\ Len(drones_df) = 2
    /\ FeasibleRoutes(1) = {<<1>>} /\ FeasibleRoutes(2) = {<<2>>}
    /\ Selected = << <<1>>, <<2>> >>

\* C3: the selected assignment covers as many orders as any valid assignment,
\* and no valid assignment covering as many has a strictly smaller total time.
C3_TwoTierOptimal ==
    SelectionDone =>
        \A t \in ValidAssignments :
            /\ Cardinality(Covered(t)) <= Cardinality(Covered(Selected))
            /\ Cardinality(Covered(t)) = Cardinality(Covered(Selected))
               => AssignTime(t) >= AssignTime(Selected)

\* C3 witness: no full coverage; the selected assignment covers an order and a
\* slower valid assignment of the same count exists.
C3_Witness ==
    /\ pc = "done"
    /\ \A t \in ValidAssignments : Covered(t) # AllOrders
    /\ Cardinality(Covered(Selected)) >= 1
    /\ \E t \in ValidAssignments :
          /\ Cardinality(Covered(t)) = Cardinality(Covered(Selected))
          /\ AssignTime(t) > AssignTime(Selected)

\* C4: every combination that survives the filter, the selected one included,
\* has pairwise disjoint order sets across drones, and every combination that
\* is discarded has an order in the routes of two drones.
C4_DisjointAssignments ==
    /\ EnumerationDone =>
          /\ \A i \in 1..Len(valid_combinations) : Disjoint(valid_combinations[i])
          /\ \A i \in 1..Len(all_combinations) :
                all_combinations[i] \notin Range(valid_combinations)
                => ~Disjoint(all_combinations[i])
    /\ FrameDone =>
          \A row \in FrameRows : Disjoint(row.Valid_combinations)
    /\ SelectionDone => Disjoint(Selected)

\* C4 witness: a combination was discarded and the plan flies two drones.
C4_Witness ==
    /\ pc = "done"
    /\ Len(valid_combinations) < Len(all_combinations)
    /\ \E d1, d2 \in 1..Len(Selected) : d1 # d2 /\ Selected[d1] # Idle /\ Selected[d2] # Idle

\* a route is usable by the drone at position d: overall is 1, and the weight
\* and the round-trip distance are within the drone's limits
Usable(route, d) ==
    /\ \E r \in 1..Len(order_data_df) :
          /\ order_data_df[r].Order_Combos = route
          /\ order_data_df[r].drone[d].overall = 1
    /\ RouteWeight(route) <= drones_df[d].max_payload
    /\ RoundTrip(route) <= drones_df[d].max_dist

\* C5: in every candidate list, every valid combination and the selected one,
\* a non-idle drone's route has overall = 1 for that drone, its weight is <=
\* the drone's max payload and its round-trip distance <= the max distance.
C5_RoutesUsable ==
    /\ CandidatesDone =>
          \A d \in 1..Len(combos_lists) : \A c \in 1..Len(combos_lists[d]) :
              combos_lists[d][c] # Idle => Usable(combos_lists[d][c], d)
    /\ FrameDone =>
          \A row \in FrameRows : \A d \in 1..Len(drones_df) :
              LET route == row.Valid_combinations[d]
              IN  route # Idle => Usable(route, d)
    /\ SelectionDone =>
          \A d \in 1..Len(drones_df) : Selected[d] # Idle => Usable(Selected[d], d)

\* C5 witness: scenario B. One drone, two orders too heavy together; the plan
\* covers one of them.
C5_Witness ==
    /\ pc = "done"
    /\ Len(orders) = 2 /\ Len(drones_df) = 1
    /\ RouteWeight(<<1, 2>>) > drones_df[1].max_payload
    /\ Cardinality(Covered(Selected)) = 1

\* C6: with no available drone the run never gets to select or write a plan:
\* past the enumeration it is in the error state, with the exception recorded.
C6_NoDroneIsAnError ==
    AvailableIDs = {} =>
        /\ \/ Staged({"load", "routes", "metrics", "candidates", "enumerate", "frame"})
           \/ pc = "error" /\ err # "none"
        /\ valid_combos_df = <<>> /\ final_output = <<>> /\ json_dict = <<>>

\* C6 witness: a fleet with no available drone, and orders, ended in an error.
C6_Witness ==
    /\ pc = "error" /\ err = "ValueError"
    /\ Len(fleet) > 0 /\ AvailableIDs = {}
    /\ Len(orders) > 0

\* C7: with no order and an available drone the run completes, and the plan
\* is the all-idle one. (The script stops with KeyError when it builds the
\* candidate lists: this statement is violated.)
C7_NoOrderCompletes ==
    (Len(orders) = 0 /\ AvailableIDs # {}) =>
        /\ pc # "error"
        /\ pc = "done" =>
              \A d \in 1..Len(json_dict) :
                  json_dict[d].orders = <<>> /\ json_dict[d].total_distance = 0

\* C8: for an available drone of speed 0 the deadline check of every route is
\* 0, its candidate list is the placeholder alone, it is idle in every valid
\* combination and adds nothing to Total_Time, and the run does not fail.
C8_SpeedZeroIdle ==
    \A d \in 1..Len(drones_df) :
        drones_df[d].speed = 0 =>
            /\ \A r \in 1..Len(order_data_df) :
                  order_data_df[r].drone[d].delivery_time_constraints = 0
            /\ CandidatesDone => combos_lists[d] = <<Idle>>
            /\ \A row \in FrameRows :
                  /\ row.Valid_combinations[d] = Idle
                  /\ row.Total_Time.kind = "num"
                  /\ row.Total_Time.num = AssignTime(row.Valid_combinations)
            /\ Len(orders) > 0 => pc # "error"
            /\ SelectionDone => Selected[d] = Idle

\* C8 witness: a plan was written in which a drone of speed 0 is idle beside a
\* drone that flies.
C8_Witness ==
    /\ pc = "done"
    /\ \E d1, d2 \in 1..Len(drones_df) :
          /\ drones_df[d1].speed = 0 /\ json_dict[d1].orders = <<>>
          /\ drones_df[d2].speed > 0 /\ json_dict[d2].orders # <<>>

\* C9: the routes are exactly the orderings of the non-empty subsets of the
\* order IDs, each once, and there are sum over k = 1..n of n!/(n-k)! of them.
C9_RoutesExhaustive ==
    RoutesDone =>
        /\ Range(all_combos_perms) = AllRoutes
        /\ Injective(all_combos_perms)
        /\ Len(all_combos_perms) = RouteCount(Len(orders), Len(orders))

\* C9 witness: the routes of two or more orders were generated.
C9_Witness ==
    /\ pc = "metrics"
    /\ Len(orders) >= 2
    /\ \E r \in 1..Len(all_combos_perms) :
          Len(all_combos_perms[r]) = Len(orders) /\ all_combos_perms[r][1] = Len(orders)

\* the i-th available drone of the fleet, in fleet order
RECURSIVE NthAvailable(_, _)
NthAvailable(n, from) ==
    IF fleet[from].available
    THEN IF n = 1 THEN from ELSE NthAvailable(n - 1, from + 1)
    ELSE NthAvailable(n, from + 1)

\* C10: the plan has one entry per available drone, in fleet order; an idle
\* drone has no order and distance 0, a flying drone has the orders of its
\* route in delivery order and the round-trip distance of the route.
C10_PlanEntries ==
    pc = "done" =>
        /\ Len(json_dict) = Cardinality(AvailableIDs)
        /\ \A d \in 1..Len(json_dict) :
              /\ json_dict[d].drone = DroneNames[NthAvailable(d, 1)]
              /\ Selected[d] = Idle =>
                    json_dict[d].orders = <<>> /\ json_dict[d].total_distance = 0
              /\ Selected[d] # Idle =>
                    /\ json_dict[d].orders
                          = [k \in 1..Len(Selected[d]) |-> OrderNames[Selected[d][k]]]
                    /\ json_dict[d].total_distance = RoundTrip(Selected[d])
                    /\ Len(Selected[d]) = 1 =>
                          json_dict[d].total_distance = 2 * Manhattan(Depot, PointOf(Selected[d][1]))

\* C10 witness: a plan with an idle drone and a drone that flies two orders,
\* the second order first.
C10_Witness ==
    /\ pc = "done"
    /\ \E d \in 1..Len(json_dict) : json_dict[d].orders = <<>>
    /\ \E d \in 1..Len(json_dict) :
          json_dict[d].orders = <<OrderNames[2], OrderNames[1]>>
====
